---------------------------- MODULE Spec2Model ----------------------------
(***************************************************************************)
(* Model of src/src/ai/providers.ts: the provider selector                 *)
(* getSelectedModel and the recursive prompt trimmer trimPrompt.           *)
(*                                                                         *)
(* A text is a sequence of one-character strings.  trimPrompt is tail      *)
(* recursive: every recursive call is `return trimPrompt(...)`, so one     *)
(* activation of the function is one step of the model and the value of    *)
(* the last activation is the value of the whole call.                     *)
(***************************************************************************)
EXTENDS Integers, Sequences, FiniteSets, TLC

VARIABLES
    \* ---- trimPrompt
    encoder,        \* the module-level token encoder (providers.ts:96)
    pc,             \* "idle" | "call" (an activation is running) | "done"
    input,          \* the text the outermost call was given
    prompt,         \* parameter `prompt` of the current activation
    contextSize,    \* parameter `contextSize`, passed down unchanged
    trimmedPrompt,  \* the splitter's candidate of the calling activation
    result,         \* the value returned
    via,            \* the return statement taken: "empty" | "within" | "floor"
    depth,          \* recursive calls made so far
    splits,         \* splitter calls made so far
    reapplied,      \* TRUE when this call trims the result of the previous call
    previous,       \* that previous result
    \* ---- getSelectedModel
    AZURE_KEY, AZURE_API_KEY, MISTRAL_KEY, MISTRAL_API_KEY,   \* process.env
    modelType,      \* argument of the last getSelectedModel call
    returned,       \* the handle it returned
    console,        \* the warnings written by console.warn, oldest first
    consoleBefore   \* Len(console) when the last call started

trimVars == <<encoder, pc, input, prompt, contextSize, trimmedPrompt, result,
              via, depth, splits, reapplied, previous>>
selVars  == <<AZURE_KEY, AZURE_API_KEY, MISTRAL_KEY, MISTRAL_API_KEY,
              modelType, returned, console, consoleBefore>>
vars     == <<trimVars, selVars>>

-----------------------------------------------------------------------------
(* Bounds of the model *)

\* longest input text
MaxLen == 150
\* most characters the splitter drops in front of its first chunk
MaxTrim == 1
\* most recursive calls of one trimPrompt call that the model follows
MaxDepth == 10
\* window of the "run" encoder: no token is longer
MaxTokenChars == 64
\* most warnings kept on the console
MaxConsole == 3

Min(a, b) == IF a < b THEN a ELSE b
Max(a, b) == IF a > b THEN a ELSE b

\* The input texts: three shapes, short and long.
Kinds == {"solid", "words", "para"}
Lengths == {0, 1, 139, 140, 141, MaxLen}
Text(kind, n) ==
    [i \in 1..n |->
        CASE kind = "solid" -> "a"
          [] kind = "words" -> IF i % 4 = 0 THEN " " ELSE "a"
          [] OTHER          -> IF i = 3 THEN "\n" ELSE "a"]
Prompts == {Text(k, n) : k \in Kinds, n \in Lengths}
Budgets == {-1, 0, 1, 2, 37, MaxLen - 3, MaxLen, 128000}
Encoders == {"char", "quad", "run"}

-----------------------------------------------------------------------------
(* trimPrompt *)

MinChunkSize == 140

\* String.prototype.slice(start, end)
Slice(s, start, end) ==
    LET n    == Len(s)
        from == IF start < 0 THEN Max(n + start, 0) ELSE Min(start, n)
        to   == IF end < 0 THEN Max(n + end, 0) ELSE Min(end, n)
    IN  IF from >= to THEN <<>> ELSE SubSeq(s, from + 1, to)

\* A token of the "run" encoder is a run of equal characters inside one window
\* of MaxTokenChars characters: a token starts at each window's first character
\* and wherever the character changes.
RunTokens(s) ==
    Cardinality({i \in 1..Len(s) :
                    \/ (i - 1) % MaxTokenChars = 0
                    \/ s[i] # s[i - 1]})

\* encoder.encode(text).length: a deterministic function of the text; the empty
\* text has no token and a non-empty text has at least one.
Measure(text) ==
    CASE encoder = "char" -> Len(text)
      [] encoder = "quad" -> (Len(text) + 3) \div 4
      [] OTHER            -> RunTokens(text)

\* mutant: the comparison lets one token too many through
WithinContextLoose(length, size) == length <= size + 1

\* mutant: the comparison is strict
WithinContextStrict(length, size) == length < size

\* length <= contextSize
WithinContext(length, size) == length <= size

\* length - contextSize
OverflowTokens(length, size) == length - size

\* mutant: the estimate is added, not subtracted
ChunkSizePlus(text, overflowTokens) == Len(text) + overflowTokens * 3

\* prompt.length - overflowTokens * 3
ChunkSize(text, overflowTokens) == Len(text) - overflowTokens * 3

\* chunkSize < MinChunkSize
BelowMinChunk(chunkSize) == chunkSize < MinChunkSize

\* mutant: the floor pads a short text to MinChunkSize characters
FloorClipPadded(text) ==
    [i \in 1..MinChunkSize |-> IF i <= Len(text) THEN text[i] ELSE " "]

\* mutant: the floor keeps one character too few
FloorClipShort(text) == Slice(text, 0, MinChunkSize - 1)

\* mutant: the floor returns the text unclipped
FloorClipWhole(text) == text

\* mutant: the floor clips to chunkSize instead of MinChunkSize
FloorClipChunk(text) ==
    Slice(text, 0, Len(text) - (Measure(text) - contextSize) * 3)

\* prompt.slice(0, MinChunkSize)
FloorClip(text) == Slice(text, 0, MinChunkSize)

\* mutant: the guard recurses on the text unchanged
HardCutWhole(text, chunkSize) == text

\* prompt.slice(0, chunkSize)
HardCut(text, chunkSize) == Slice(text, 0, chunkSize)

\* trimmedPrompt.length === prompt.length
SameLength(candidate, text) == Len(candidate) = Len(text)

\* splitter.splitText(prompt), cut to its first chunk: no chunk at all, or a
\* non-empty contiguous piece of the text, of any length.
SplitText(text, chunkSize) ==
    {<<SubSeq(text, from, to)>> :
        <<from, to>> \in {w \in (1..(1 + MaxTrim)) \X (1..Len(text)) :
                            w[1] <= w[2]}}
    \cup {<<>>}

\* chunks[0] ?? ''
FirstChunk(chunks) == IF chunks = <<>> THEN <<>> ELSE Head(chunks)

ChunkSizeOf(text) ==
    ChunkSize(text, OverflowTokens(Measure(text), contextSize))

\* a caller calls trimPrompt(text, budget)
Enter(text, budget, again) ==
    /\ pc' = "call"
    /\ input' = text /\ prompt' = text /\ contextSize' = budget
    /\ trimmedPrompt' = <<>> /\ result' = <<>> /\ via' = "none"
    /\ depth' = 0 /\ splits' = 0
    /\ reapplied' = again
    /\ previous' = IF again THEN result ELSE <<>>
    /\ UNCHANGED <<encoder, selVars>>

Call ==
    /\ pc = "idle"
    /\ \E text \in Prompts, budget \in Budgets : Enter(text, budget, FALSE)

\* the caller trims the result again, with the same budget
Reapply ==
    /\ pc = "done" /\ ~reapplied
    /\ Enter(result, contextSize, TRUE)

Return(value, how) ==
    /\ pc' = "done" /\ result' = value /\ via' = how
    /\ UNCHANGED <<encoder, input, prompt, contextSize, trimmedPrompt,
                   depth, splits, reapplied, previous, selVars>>

\* if (!prompt) return ''
ReturnEmpty ==
    /\ pc = "call" /\ prompt = <<>>
    /\ Return(<<>>, "empty")

\* if (length <= contextSize) return prompt
ReturnWithin ==
    /\ pc = "call" /\ prompt # <<>>
    /\ WithinContext(Measure(prompt), contextSize)
    /\ Return(prompt, "within")

\* if (chunkSize < MinChunkSize) return prompt.slice(0, MinChunkSize)
ReturnFloor ==
    /\ pc = "call" /\ prompt # <<>>
    /\ ~WithinContext(Measure(prompt), contextSize)
    /\ BelowMinChunk(ChunkSizeOf(prompt))
    /\ Return(FloorClip(prompt), "floor")

Recurse(candidate, text) ==
    /\ depth < MaxDepth
    /\ trimmedPrompt' = candidate
    /\ prompt' = text
    /\ depth' = depth + 1 /\ splits' = splits + 1
    /\ UNCHANGED <<encoder, pc, input, contextSize, result, via,
                   reapplied, previous, selVars>>

\* the splitter made no reduction: return trimPrompt(prompt.slice(0, chunkSize), contextSize)
RecurseHardCut ==
    /\ pc = "call" /\ prompt # <<>>
    /\ ~WithinContext(Measure(prompt), contextSize)
    /\ ~BelowMinChunk(ChunkSizeOf(prompt))
    /\ \E chunks \in SplitText(prompt, ChunkSizeOf(prompt)) :
          /\ SameLength(FirstChunk(chunks), prompt)
          /\ Recurse(FirstChunk(chunks), HardCut(prompt, ChunkSizeOf(prompt)))

\* the first chunk is shorter: return trimPrompt(trimmedPrompt, contextSize)
RecurseTrimmed ==
    /\ pc = "call" /\ prompt # <<>>
    /\ ~WithinContext(Measure(prompt), contextSize)
    /\ ~BelowMinChunk(ChunkSizeOf(prompt))
    /\ \E chunks \in SplitText(prompt, ChunkSizeOf(prompt)) :
          /\ chunks # <<>>
          /\ ~SameLength(FirstChunk(chunks), prompt)
          /\ Recurse(FirstChunk(chunks), FirstChunk(chunks))

\* the splitter yields no chunk: trimmedPrompt is '', return trimPrompt('', contextSize)
RecurseNoChunk ==
    /\ pc = "call" /\ prompt # <<>>
    /\ ~WithinContext(Measure(prompt), contextSize)
    /\ ~BelowMinChunk(ChunkSizeOf(prompt))
    /\ \E chunks \in SplitText(prompt, ChunkSizeOf(prompt)) :
          /\ chunks = <<>>
          /\ ~SameLength(FirstChunk(chunks), prompt)
          /\ Recurse(FirstChunk(chunks), FirstChunk(chunks))

-----------------------------------------------------------------------------
(* getSelectedModel *)

Null == "null"

\* an environment variable is unset or empty (""), or holds a key
EnvValues == {"", "key"}

\* a || b || ""
OrElse(a, b) == IF a # "" THEN a ELSE IF b # "" THEN b ELSE ""

azureApiKey   == OrElse(AZURE_KEY, AZURE_API_KEY)
mistralApiKey == OrElse(MISTRAL_KEY, MISTRAL_API_KEY)

azureProvider   == IF azureApiKey # "" THEN "azureProvider" ELSE Null
mistralProvider == IF mistralApiKey # "" THEN "mistralProvider" ELSE Null

o3MiniModel  == "o3MiniModel"
googleModel  == "googleModel"
azureModel   == IF azureProvider # Null THEN "azureModel" ELSE Null
mistralModel == IF mistralProvider # Null THEN "mistralModel" ELSE Null

AzureWarning   == "Azure API key not provided. Falling back to OpenAI model."
MistralWarning == "Mistral API key not provided. Falling back to OpenAI model."

\* mutant: the handle is used without the null check
TruthyAlways(model) == TRUE

\* if (model) ...
Truthy(model) == model # Null

\* mutant: the switch has no default branch and falls out with no handle
DefaultNull == Null

\* the default branch of the switch
DefaultModel == o3MiniModel

\* the handle getSelectedModel(type) returns and the warnings it writes
GetSelectedModel(type) ==
    CASE type = "openai"  -> [model |-> o3MiniModel, warn |-> <<>>]
      [] type = "google"  -> [model |-> googleModel, warn |-> <<>>]
      [] type = "azure"   ->
            IF Truthy(azureModel)
            THEN [model |-> azureModel, warn |-> <<>>]
            ELSE [model |-> o3MiniModel, warn |-> <<AzureWarning>>]
      [] type = "mistral" ->
            IF Truthy(mistralModel)
            THEN [model |-> mistralModel, warn |-> <<>>]
            ELSE [model |-> o3MiniModel, warn |-> <<MistralWarning>>]
      [] OTHER            -> [model |-> DefaultModel, warn |-> <<>>]

\* the identifiers a caller may pass: the four of the type, and one outside it
ModelTypes == {"openai", "google", "azure", "mistral", "unknown-value"}

\* a caller calls getSelectedModel(type)
Select(type) ==
    /\ Len(console) < MaxConsole
    /\ modelType' = type
    /\ returned' = GetSelectedModel(type).model
    /\ consoleBefore' = Len(console)
    /\ console' = console \o GetSelectedModel(type).warn
    /\ UNCHANGED <<AZURE_KEY, AZURE_API_KEY, MISTRAL_KEY, MISTRAL_API_KEY,
                   trimVars>>

-----------------------------------------------------------------------------
(* Specifications *)

\* trimPrompt: the encoder is built when the module loads; no call yet.  The
\* selector is left as the module builds it with no optional key set.
Init ==
    /\ encoder \in Encoders
    /\ pc = "idle"
    /\ input = <<>> /\ prompt = <<>> /\ contextSize = 0
    /\ trimmedPrompt = <<>> /\ result = <<>> /\ via = "none"
    /\ depth = 0 /\ splits = 0
    /\ reapplied = FALSE /\ previous = <<>>
    /\ AZURE_KEY = "" /\ AZURE_API_KEY = ""
    /\ MISTRAL_KEY = "" /\ MISTRAL_API_KEY = ""
    /\ modelType = "none" /\ returned = Null
    /\ console = <<>> /\ consoleBefore = 0

Next ==
    \/ Call
    \/ Reapply
    \/ ReturnEmpty
    \/ ReturnWithin
    \/ ReturnFloor
    \/ RecurseHardCut
    \/ RecurseTrimmed
    \/ RecurseNoChunk

Spec == Init /\ [][Next]_vars

\* trimPrompt runs synchronously: a call that can take a step takes it
FairSpec == Init /\ [][Next]_vars /\ WF_vars(Next)

\* getSelectedModel: the environment is read when the module loads; no call
\* yet, and no trim call is running.
SelectInit ==
    /\ AZURE_KEY \in EnvValues /\ AZURE_API_KEY \in EnvValues
    /\ MISTRAL_KEY \in EnvValues /\ MISTRAL_API_KEY \in EnvValues
    /\ modelType = "none" /\ returned = Null
    /\ console = <<>> /\ consoleBefore = 0
    /\ encoder = "char"
    /\ pc = "idle"
    /\ input = <<>> /\ prompt = <<>> /\ contextSize = 0
    /\ trimmedPrompt = <<>> /\ result = <<>> /\ via = "none"
    /\ depth = 0 /\ splits = 0
    /\ reapplied = FALSE /\ previous = <<>>

SelectNext == \E type \in ModelTypes : Select(type)

SelectSpec == SelectInit /\ [][SelectNext]_vars

-----------------------------------------------------------------------------
(* Properties *)

Done == pc = "done"

\* the first MinChunkSize characters of a text
Prefix140(text) == SubSeq(text, 1, Min(140, Len(text)))

\* target_chars of a text: its length less three characters per overflow token
TargetChars(text) == Len(text) - 3 * (Measure(text) - contextSize)

\* C1: with a budget >= 1, the text returned measures at most the budget, or
\* it is the floor clip: the first 140 characters of the text whose
\* target_chars fell below 140.  Nothing else over budget is returned.
C1_WithinBudgetOrFloorClip ==
    (Done /\ contextSize >= 1) =>
        \/ Measure(result) <= contextSize
        \/ /\ via = "floor"
           /\ TargetChars(prompt) < 140
           /\ result = Prefix140(prompt)
           /\ Len(result) <= 140

\* a floor clip that is over budget, reached after a recursive call
C1_Witness ==
    /\ Done /\ contextSize >= 1 /\ ~reapplied
    /\ via = "floor" /\ depth >= 1
    /\ Measure(result) > contextSize

\* C2: a text that measures at most the budget is returned as it is, with no
\* splitter call and no recursive call.
C2_ShortInputUnchanged ==
    (Done /\ Measure(input) <= contextSize) =>
        /\ result = input
        /\ splits = 0
        /\ depth = 0

\* a text longer than the floor, within budget, returned by the base case
C2_Witness ==
    /\ Done /\ ~reapplied
    /\ Measure(input) = contextSize
    /\ Len(input) > 140
    /\ via = "within"

\* C3: the text returned is never longer than the text given (the splitter's
\* first chunk being a piece of the text it was given).
C3_NeverLonger == Done => Len(result) <= Len(input)

\* a result shorter than the input, after the splitter was called
C3_Witness ==
    /\ Done /\ ~reapplied
    /\ splits >= 1
    /\ Len(result) < Len(input)

\* C4: with a budget >= 1 every call of trimPrompt returns: a running call
\* reaches one of its return statements.
C4_Terminates == (pc = "call" /\ contextSize >= 1) ~> Done

\* a call with a budget >= 1 that returned after three recursive calls
C4_Witness == Done /\ contextSize >= 1 /\ depth >= 3

\* C5 as stated: with budget 1 a text longer than 140 characters gives a
\* result of exactly 140 characters, and a text of at most 140 characters is
\* returned as it is.
C5_Original ==
    (Done /\ contextSize = 1) =>
        /\ Len(input) > 140 => Len(result) = 140
        /\ Len(input) <= 140 => result = input

\* C5 amended: with budget 1 and a text longer than 140 characters, the result
\* measures at most 1 token, or it is the floor clip of the last text trimmed,
\* exactly 140 characters when that text has at least 140 and the whole of it
\* when it has fewer; a text of at most 140 characters is returned as it is.
C5_FloorAtBudgetOne ==
    (Done /\ contextSize = 1) =>
        /\ Len(input) > 140 =>
              \/ Measure(result) <= 1
              \/ /\ via = "floor"
                 /\ Len(result) = Min(140, Len(prompt))
                 /\ (Len(prompt) < 140 => result = prompt)
        /\ Len(input) <= 140 => result = input

\* budget 1, a text longer than 140 characters, clipped to exactly 140 after a
\* recursive call
C5_Witness ==
    /\ Done /\ contextSize = 1 /\ ~reapplied
    /\ Len(input) > 140
    /\ via = "floor" /\ depth >= 1
    /\ Len(result) = 140 /\ Measure(result) > 1

\* C6: 'azure' with no azure key returns the openai handle and writes exactly
\* one warning in that call; with a key it returns the azure handle and writes
\* none.  The same for 'mistral'.
C6_Fallback ==
    /\ modelType = "azure" =>
          IF AZURE_KEY = "" /\ AZURE_API_KEY = ""
          THEN /\ returned = "o3MiniModel"
               /\ console = SubSeq(console, 1, consoleBefore) \o <<AzureWarning>>
          ELSE /\ returned = "azureModel"
               /\ Len(console) = consoleBefore
    /\ modelType = "mistral" =>
          IF MISTRAL_KEY = "" /\ MISTRAL_API_KEY = ""
          THEN /\ returned = "o3MiniModel"
               /\ console = SubSeq(console, 1, consoleBefore) \o <<MistralWarning>>
          ELSE /\ returned = "mistralModel"
               /\ Len(console) = consoleBefore

\* 'azure' was asked for with no azure key, after an earlier warning
C6_Witness ==
    /\ modelType = "azure"
    /\ AZURE_KEY = "" /\ AZURE_API_KEY = ""
    /\ consoleBefore >= 1
    /\ Len(console) = consoleBefore + 1

\* C7: an identifier outside the four returns the openai handle and writes no
\* warning; 'openai' and 'google' write no warning either.
C7_Default ==
    /\ modelType \notin {"none", "openai", "google", "azure", "mistral"} =>
          /\ returned = "o3MiniModel"
          /\ Len(console) = consoleBefore
    /\ modelType = "openai" =>
          returned = "o3MiniModel" /\ Len(console) = consoleBefore
    /\ modelType = "google" =>
          returned = "googleModel" /\ Len(console) = consoleBefore

\* an identifier outside the four was asked for
C7_Witness ==
    /\ modelType = "unknown-value"
    /\ returned = "o3MiniModel"
    /\ Len(console) = consoleBefore

\* C8: every recursive call is made on a strictly shorter text with the same
\* budget: on the hard slice text[0:target_chars], target_chars < len(text),
\* when the candidate is as long as the text, and on the candidate otherwise.
C8_RecursionShrinks ==
    [][(pc = "call" /\ pc' = "call") =>
          /\ Len(prompt') < Len(prompt)
          /\ contextSize' = contextSize
          /\ IF Len(trimmedPrompt') = Len(prompt)
             THEN /\ TargetChars(prompt) < Len(prompt)
                  /\ prompt' = SubSeq(prompt, 1, TargetChars(prompt))
             ELSE prompt' = trimmedPrompt']_vars

\* a recursive call on the hard slice: the candidate is longer than the text
\* the call was made on
C8_Witness ==
    /\ pc = "call" /\ depth >= 1
    /\ Len(trimmedPrompt) > Len(prompt)

\* C9: with a budget <= 0 and a non-empty text the call returns, never
\* through the base case with a non-empty text, and with at most 140 characters.
C9_NonPositiveBudget ==
    /\ [](( Done /\ contextSize <= 0 /\ input # <<>>) =>
            /\ ~(via = "within" /\ result # <<>>)
            /\ Len(result) <= 140)
    /\ ((pc = "call" /\ contextSize <= 0 /\ input # <<>>) ~> Done)

\* budget <= 0, a text longer than 140 characters, clipped to 140 after a
\* recursive call
C9_Witness ==
    /\ Done /\ contextSize <= 0 /\ ~reapplied
    /\ Len(input) > 140
    /\ via = "floor" /\ depth >= 1
    /\ Len(result) = 140

\* C10: trimming the result again with the same budget returns the same text,
\* with no splitter call.
C10_FixedPoint ==
    (Done /\ reapplied) =>
        /\ result = previous
        /\ input = previous
        /\ splits = 0

\* a 140-character floor clip, still over budget, clipped again
C10_Witness ==
    /\ Done /\ reapplied
    /\ via = "floor"
    /\ Len(previous) = 140
    /\ Measure(previous) > contextSize

=============================================================================
